---- MODULE Spec2Model ----
(***************************************************************************)
(* Model of the sipgate MCP server (src/src/index.ts): the read-resource   *)
(* handler with its memoization map and the call-tool handler.             *)
(*                                                                         *)
(* Node runs one handler invocation at a time and switches between         *)
(* invocations only at an `await`.  Each action below is therefore one     *)
(* synchronous stretch of a handler: from the request's arrival to its     *)
(* first await (or to its completion), or from the settlement of an        *)
(* awaited provider promise to the next await (or to completion).          *)
(* The sipgate provider is outside the repository: what it returns or      *)
(* throws is an input drawn from the sets below.                           *)
(***************************************************************************)
EXTENDS Naturals, Sequences, FiniteSets, TLC

VARIABLES
    cachedResources, \* index.ts:44   uri -> cached value (Absent: own key missing)
    pc,              \* per invocation: the await it is suspended at, "idle" or "done"
    req,             \* per invocation: request.params
    loc,             \* per invocation: the handler's local variables
    resp,            \* per invocation: how the handler ended (returned / threw)
    calls,           \* per invocation: the provider operations it invoked, in order
    fetched,         \* per resource uri: a read request has fetched it from the provider
    boot             \* the process: environment, position in start-up, what is set up

vars == <<cachedResources, pc, req, loc, resp, calls, fetched, boot>>

(***************************************************************************)
(* Bounds                                                                  *)
(***************************************************************************)
NumReaders == 2    \* read-resource invocations that may be in flight together
NumCallers == 1    \* call-tool invocations that may be in flight together

Readers == 1..NumReaders
Callers == 1..NumCallers
Slots   == Readers \cup Callers

(***************************************************************************)
(* Values                                                                  *)
(***************************************************************************)
Undef    == "undefined"
Null     == "null"
EmptyArr == "[]"
Absent   == "<absent>"          \* no own property under that key

\* what a provider data operation may resolve to
Values == {Undef, Null, EmptyArr, "A", "B"}

\* JS truthiness of the values above: only undefined and null are falsy;
\* an empty array is an object and therefore truthy.
Truthy(v) == v \notin {Undef, Null, Absent}

\* Strings are modelled as sequences of tokens, so that concatenation, prefixes
\* and whitespace stripping are computed rather than assumed.
\* JSON.stringify(v, null, 2) as one token; JSON.stringify(undefined) is
\* undefined, not a string
UndefText == "<undefined>"
Stringify(v) ==
    CASE v = Undef    -> UndefText
      [] v = Null     -> "null"
      [] v = EmptyArr -> "[]"
      [] v = "A"      -> "{\n  \"v\": \"A\"\n}"
      [] v = "B"      -> "{\n  \"v\": \"B\"\n}"
      [] v = "fn"     -> UndefText   \* a function serializes to undefined

\* a provider failure: an Error with a message
ProviderErrors == {[name |-> "Error", code |-> "none", message |-> <<"provider failed">>]}

\* new McpError(code, message): the SDK prefixes the message with the code
McpError(code, message) ==
    [name |-> "McpError", code |-> code, message |-> <<"MCP error ", code, ": ">> \o message]

(***************************************************************************)
(* Resources                                                               *)
(***************************************************************************)
ResourceUris == {"sipgate://account", "sipgate://numbers",
                 "sipgate://history", "sipgate://devices"}

\* uris a client may send that are not resources; "toString" names a property
\* every object literal inherits from Object.prototype
InheritedKeys == {"toString"}
OtherUris     == {"sipgate://other"} \cup InheritedKeys
Uris          == ResourceUris \cup OtherUris

\* this.cachedResources[uri]: own property, else the prototype chain, else undefined
CacheGet(cache, uri) ==
    IF uri \in DOMAIN cache /\ cache[uri] # Absent THEN cache[uri]
    ELSE IF uri \in InheritedKeys THEN "fn"
    ELSE Undef

\* the same test with an empty collection taken for "nothing cached"
CacheHit_NonEmpty(cache, uri) == CacheGet(cache, uri) \notin {Undef, Null, Absent, EmptyArr}

\* if (this.cachedResources[uri])
CacheHit(cache, uri) == Truthy(CacheGet(cache, uri))

\* the if / else-if chain: the await the handler suspends at first, or "invalid"
ReadDispatch(uri) ==
    CASE uri = "sipgate://account" -> "r_account"
      [] uri = "sipgate://numbers" -> "r_numbers"
      [] uri = "sipgate://history" -> "r_history"
      [] uri = "sipgate://devices" -> "r_webuser"
      [] OTHER                     -> "invalid"

\* the provider operation invoked on the way into each await of the read handler
ReadOp(p) ==
    CASE p = "r_account" -> "client.get /account"
      [] p = "r_numbers" -> "numbersModule.getAllNumbers"
      [] p = "r_history" -> "historyModule.fetchAll limit 20"
      [] p = "r_webuser" -> "client.getAuthenticatedWebuserId"
      [] p = "r_devices" -> "devicesModule.getDevices"

WebuserIds == {<<"w0">>, <<"w1">>}

NoReq  == [kind |-> "none"]
NoLoc  == [none |-> TRUE]
NoResp == [kind |-> "none"]

ReadResult(uri, text) ==
    [kind |-> "result", uri |-> uri, mimeType |-> "application/json", text |-> text]
Raise(error) == [kind |-> "raise", error |-> error]

\* a catch that rethrows what it caught
ReadCatch_Rethrow(error) == Raise(error)

\* catch (error) of the read handler
ReadCatch(error) ==
    Raise(McpError("InternalError", <<"Sipgate API error: ">> \o error.message))

\* the cache after `this.cachedResources[uri] = data`
CacheStore(cache, uri, data) == [cache EXCEPT ![uri] = data]

(***************************************************************************)
(* Start-up                                                                *)
(***************************************************************************)
\* process.env.X as an option: <<>> when unset, <<str>> when set to str
EnvValues == {<<>>, << <<>> >>, << <<"secret">> >>}
\* process.env.X || ''
EnvOr(x) == IF x = <<>> \/ x[1] = <<>> THEN <<>> ELSE x[1]

\* the && slip: only both credentials missing stops the start-up
CredentialsMissing_Both(tokenId, token) == tokenId = <<>> /\ token = <<>>

\* if (!TOKEN_ID || !TOKEN)
CredentialsMissing(tokenId, token) == tokenId = <<>> \/ token = <<>>

ResourceHandlers == {"resources/list", "resources/read"}
ToolHandlers     == {"tools/list", "tools/call"}

\* the process as the module starts to load
Loading(tokenIdEnv, tokenEnv) ==
    [pc |-> "load",
     env |-> [SIPGATE_TOKEN_ID |-> tokenIdEnv, SIPGATE_TOKEN |-> tokenEnv],
     TOKEN_ID |-> <<>>, TOKEN |-> <<>>,
     client |-> FALSE, handlers |-> {}, connected |-> FALSE]

\* the process once `server.run()` has connected the transport
Serving ==
    [pc |-> "serving",
     env |-> [SIPGATE_TOKEN_ID |-> << <<"secret">> >>, SIPGATE_TOKEN |-> << <<"secret">> >>],
     TOKEN_ID |-> <<"secret">>, TOKEN |-> <<"secret">>,
     client |-> TRUE, handlers |-> ResourceHandlers \cup ToolHandlers,
     connected |-> TRUE]

\* a request of `method` reaches its handler
Accepts(method) == boot.connected /\ method \in boot.handlers

\* module top level: read the credentials and refuse to go on without them
LoadCredentials ==
    /\ boot.pc = "load"
    /\ LET tokenId == EnvOr(boot.env.SIPGATE_TOKEN_ID)
           token   == EnvOr(boot.env.SIPGATE_TOKEN)
       IN  boot' = [boot EXCEPT !.TOKEN_ID = tokenId, !.TOKEN = token,
                                !.pc = IF CredentialsMissing(tokenId, token)
                                       THEN "failed" ELSE "construct"]
    /\ UNCHANGED <<cachedResources, pc, req, loc, resp, calls, fetched>>

\* constructor: the Server, the sipgate client and its modules
Construct ==
    /\ boot.pc = "construct"
    /\ boot' = [boot EXCEPT !.client = TRUE, !.pc = "setupResourceHandlers"]
    /\ UNCHANGED <<cachedResources, pc, req, loc, resp, calls, fetched>>

SetupResourceHandlers ==
    /\ boot.pc = "setupResourceHandlers"
    /\ boot' = [boot EXCEPT !.handlers = @ \cup ResourceHandlers, !.pc = "setupToolHandlers"]
    /\ UNCHANGED <<cachedResources, pc, req, loc, resp, calls, fetched>>

SetupToolHandlers ==
    /\ boot.pc = "setupToolHandlers"
    /\ boot' = [boot EXCEPT !.handlers = @ \cup ToolHandlers, !.pc = "run"]
    /\ UNCHANGED <<cachedResources, pc, req, loc, resp, calls, fetched>>

\* run(): connect the stdio transport
Run ==
    /\ boot.pc = "run"
    /\ boot' = [boot EXCEPT !.connected = TRUE, !.pc = "serving"]
    /\ UNCHANGED <<cachedResources, pc, req, loc, resp, calls, fetched>>

\* the state of the server object as constructed
Fresh ==
    /\ cachedResources = [u \in Uris |-> Absent]
    /\ pc = [r \in Slots |-> "idle"]
    /\ req = [r \in Slots |-> NoReq]
    /\ loc = [r \in Slots |-> NoLoc]
    /\ resp = [r \in Slots |-> NoResp]
    /\ calls = [r \in Slots |-> <<>>]
    /\ fetched = [u \in ResourceUris |-> FALSE]

\* a started server that has served nothing yet
Init ==
    /\ Fresh
    /\ boot = Serving

\* values left in the cache by earlier successful reads
CachedBefore == {Absent, "A"}

\* a started server whose cache earlier reads have filled in part
InitCached ==
    /\ cachedResources \in
          {c \in [Uris -> CachedBefore] : \A u \in OtherUris : c[u] = Absent}
    /\ fetched = [u \in ResourceUris |-> cachedResources[u] # Absent]
    /\ pc = [r \in Slots |-> "idle"]
    /\ req = [r \in Slots |-> NoReq]
    /\ loc = [r \in Slots |-> NoLoc]
    /\ resp = [r \in Slots |-> NoResp]
    /\ calls = [r \in Slots |-> <<>>]
    /\ boot = Serving

\* the process at its start, under any environment
InitStart ==
    /\ Fresh
    /\ \E i \in EnvValues, t \in EnvValues : boot = Loading(i, t)

(***************************************************************************)
(* ReadResourceRequestSchema handler, from arrival to its first await      *)
(***************************************************************************)
ReadResource(r, uri) ==
    /\ Accepts("resources/read")
    /\ pc[r] = "idle"
    /\ req' = [req EXCEPT ![r] = [kind |-> "read", uri |-> uri]]
    /\ IF CacheHit(cachedResources, uri)
       THEN /\ resp' = [resp EXCEPT ![r] =
                           ReadResult(uri, <<Stringify(CacheGet(cachedResources, uri))>>)]
            /\ pc' = [pc EXCEPT ![r] = "done"]
            /\ UNCHANGED <<calls, fetched>>
       ELSE IF ReadDispatch(uri) = "invalid"
       THEN /\ resp' = [resp EXCEPT ![r] =
                           ReadCatch(McpError("InvalidRequest", <<"Invalid URI: ", uri>>))]
            /\ pc' = [pc EXCEPT ![r] = "done"]
            /\ UNCHANGED <<calls, fetched>>
       ELSE /\ pc' = [pc EXCEPT ![r] = ReadDispatch(uri)]
            /\ calls' = [calls EXCEPT ![r] = <<ReadOp(ReadDispatch(uri))>>]
            /\ fetched' = [fetched EXCEPT ![uri] = TRUE]
            /\ UNCHANGED resp
    /\ UNCHANGED <<cachedResources, loc, boot>>

\* the awaited data operation resolved with `data`: cache it and return it
ReadFetched(r, data) ==
    /\ pc[r] \in {"r_account", "r_numbers", "r_history", "r_devices"}
    /\ cachedResources' = CacheStore(cachedResources, req[r].uri, data)
    /\ loc' = [loc EXCEPT ![r] = [data |-> data]]
    /\ resp' = [resp EXCEPT ![r] = ReadResult(req[r].uri, <<Stringify(data)>>)]
    /\ pc' = [pc EXCEPT ![r] = "done"]
    /\ UNCHANGED <<req, calls, fetched, boot>>

\* getAuthenticatedWebuserId resolved: go on to getDevices(webuserId)
ReadWebuser(r, webuserId) ==
    /\ pc[r] = "r_webuser"
    /\ loc' = [loc EXCEPT ![r] = [webuserId |-> webuserId]]
    /\ calls' = [calls EXCEPT ![r] = Append(@, ReadOp("r_devices"))]
    /\ pc' = [pc EXCEPT ![r] = "r_devices"]
    /\ UNCHANGED <<cachedResources, req, resp, fetched, boot>>

\* a failed read that leaves a null entry behind
ReadFailed_Caching(r, error) ==
    /\ pc[r] \in {"r_account", "r_numbers", "r_history", "r_webuser", "r_devices"}
    /\ cachedResources' = CacheStore(cachedResources, req[r].uri, Null)
    /\ loc' = [loc EXCEPT ![r] = [error |-> error]]
    /\ resp' = [resp EXCEPT ![r] = ReadCatch(error)]
    /\ pc' = [pc EXCEPT ![r] = "done"]
    /\ UNCHANGED <<req, calls, fetched, boot>>

\* the awaited provider operation rejected
ReadFailed(r, error) ==
    /\ pc[r] \in {"r_account", "r_numbers", "r_history", "r_webuser", "r_devices"}
    /\ loc' = [loc EXCEPT ![r] = [error |-> error]]
    /\ resp' = [resp EXCEPT ![r] = ReadCatch(error)]
    /\ pc' = [pc EXCEPT ![r] = "done"]
    /\ UNCHANGED <<cachedResources, req, calls, fetched, boot>>

\* the response has gone out; the invocation is over
Finish(r) ==
    /\ pc[r] = "done"
    /\ pc' = [pc EXCEPT ![r] = "idle"]
    /\ req' = [req EXCEPT ![r] = NoReq]
    /\ loc' = [loc EXCEPT ![r] = NoLoc]
    /\ resp' = [resp EXCEPT ![r] = NoResp]
    /\ calls' = [calls EXCEPT ![r] = <<>>]
    /\ UNCHANGED <<cachedResources, fetched, boot>>

(***************************************************************************)
(* Tools                                                                   *)
(***************************************************************************)
ToolNames == {"get_account_info", "get_phone_numbers", "send_sms", "initiate_call",
              "get_call_history", "get_user_info", "get_devices"}

\* inputSchema.required of each tool descriptor
Required(name) ==
    CASE name = "send_sms"      -> {"smsId", "recipient", "message"}
      [] name = "initiate_call" -> {"from", "to"}
      [] OTHER                  -> {}

\* names a client may send
CallNames == ToolNames \cup {"no_such_tool"}

\* request.params.arguments.  A property is an option: <<>> when the property is
\* missing (it reads as undefined), <<v>> when it is present with value v.
Has(args, k) == args[k] # <<>>
Val(args, k) == args[k][1]
\* !args.k for a string-valued property: missing or the empty string
FalsyStr(args, k) == ~Has(args, k) \/ Val(args, k) = <<>>
\* !args.k for a number-valued property: missing or 0
FalsyNum(args, k) == ~Has(args, k) \/ Val(args, k) = 0

NoArgs == [none |-> <<>>]
SmsArgs ==
    [smsId     : {<<>>, << <<"s0">> >>, << <<"s9">> >>},
     recipient : {<<>>, << <<>> >>, << <<"+49", " ", "151">> >>},
     message   : {<<>>, << <<"hi">> >>}]
CallArgs ==
    [from     : {<<>>, << <<"e0">> >>},
     to       : {<<>>, << <<"+4930">> >>},
     callerId : {<<>>, << <<"+4940">> >>}]
HistoryArgs ==
    [limit : {<<>>, <<0>>, <<5>>},
     types : {<<>>, << <<"SMS">> >>}]

\* the argument objects a client may send with each name
ArgsOf(name) ==
    CASE name = "send_sms"         -> SmsArgs
      [] name = "initiate_call"    -> CallArgs
      [] name = "get_call_history" -> HistoryArgs
      [] OTHER                     -> {NoArgs}

\* reading a property of undefined
TypeErrorUndefined ==
    [name |-> "TypeError", code |-> "none",
     message |-> <<"Cannot read properties of undefined">>]

\* what GET /{webuserId}/sms may resolve to: undefined, an object without
\* items, or an object with a list of extensions
Ext(id) == [id |-> <<id>>, alias |-> <<"alias of ", id>>]
ExtLists == {<<>>, <<Ext("s0")>>, <<Ext("s0"), Ext("s1")>>, <<Ext("s1"), Ext("s0")>>}
ExtResponses ==
    {[defined |-> FALSE, items |-> <<>>], [defined |-> TRUE, items |-> <<>>]}
    \cup {[defined |-> TRUE, items |-> << l >>] : l \in ExtLists}

\* JSON.stringify(smsExtension, null, 2)
StringifyExt(e) == <<"{\n  \"id\": \"">> \o e.id \o <<"\",\n  \"alias\": \"">> \o e.alias \o <<"\"\n}">>

\* recipient.replace(/\s+/g, '')
Whitespace == {" ", "\t", "\n"}
IsNotWs(c) == c \notin Whitespace
StripWs(str) == SelectSeq(str, IsNotWs)

Envelope(text, isError) == [kind |-> "envelope", text |-> text, isError |-> isError]

\* a switch without the catch around it: the error leaves the handler
ToolOuterCatch_Missing(error) == Raise(error)

\* the catch of the whole switch
ToolOuterCatch(error) == Envelope(<<"Sipgate API error: ">> \o error.message, TRUE)

\* the catch blocks inside single cases, which rethrow
AccountCatch(error) ==
    McpError("InternalError", <<"Error getting account info: ">> \o error.message)
NumbersCatch(error) ==
    McpError("InternalError", <<"Error getting phone numbers: ">> \o error.message)
SmsCatch(error) ==
    McpError("InternalError", <<"SMS sending failed: ">> \o error.message)

\* the error as it leaves the case in which the await at `p` sits
CaseCatch(p, error) ==
    CASE p = "t_account"                                   -> AccountCatch(error)
      [] p = "t_numbers"                                   -> NumbersCatch(error)
      [] p \in {"t_sms_webuser", "t_sms_ext"}              -> SmsCatch(error)
      [] OTHER                                             -> error

\* value ? JSON.stringify(value, null, 2) : fallback
OrFallback(value, fallback) == IF Truthy(value) THEN <<Stringify(value)>> ELSE <<fallback>>

\* the text returned once the data operation awaited at `p` resolved with `value`
ToolText(p, value) ==
    CASE p = "t_account"     -> <<Stringify(value)>>
      [] p = "t_numbers"     -> OrFallback(value, "No phone numbers available")
      [] p = "t_history"     -> OrFallback(value, "No call history available")
      [] p = "t_user_get"    -> <<Stringify(value)>>
      [] p = "t_dev_devices" -> OrFallback(value, "No devices available")

DebugInfo(webuserId, smsExtension) ==
    <<"Debug Info:\nWeb User ID: ">> \o webuserId
        \o <<"\nUsing SMS Extension: ">> \o StringifyExt(smsExtension)

\* the texts of the two returns around smsModule.send
SmsSentText(debugInfo, recipient) ==
    debugInfo \o <<"\n\nSMS sent successfully to ">> \o recipient
\* the error text without the diagnostic block
SmsErrorText_Bare(debugInfo, smsError) == <<"SMS Error: ">> \o smsError.message

SmsErrorText(debugInfo, smsError) ==
    debugInfo \o <<"\n\nSMS Error: ">> \o smsError.message

\* the extension send_sms sends from
\* the last extension of the list instead of the first
ChooseExtension_Last(smsExtensions) == smsExtensions[Len(smsExtensions)]

ChooseExtension(smsExtensions) == smsExtensions[1]

\* callData of initiate_call: callerId only when it is truthy
CallData(args) ==
    [from |-> Val(args, "from"), to |-> Val(args, "to"),
     callerId |-> IF FalsyStr(args, "callerId") THEN <<>> ELSE args.callerId]

\* historyFilter of get_call_history
AllTypes == <<"CALL", "VOICEMAIL", "FAX", "SMS">>
DefaultLimit == 10
HistoryFilter(args) ==
    [limit |-> IF FalsyNum(args, "limit") THEN DefaultLimit ELSE Val(args, "limit"),
     types |-> IF Has(args, "types") THEN Val(args, "types") ELSE AllTypes]

\* a synchronous stretch ends suspended at an await, having invoked `op` ...
Await(p, l, op) == [pc |-> p, loc |-> l, resp |-> NoResp, ops |-> <<op>>]
\* ... or with the handler's completion
End(response) == [pc |-> "done", loc |-> NoLoc, resp |-> response, ops |-> <<>>]

SendSmsBegin(hasArgs, args) ==
    IF ~hasArgs
    THEN End(ToolOuterCatch(SmsCatch(TypeErrorUndefined)))
    ELSE IF FalsyStr(args, "recipient") \/ FalsyStr(args, "message")
    THEN End(ToolOuterCatch(SmsCatch(McpError("InvalidParams",
             <<"Missing required parameters: recipient and message are required">>))))
    ELSE Await("t_sms_webuser", NoLoc, "client.getAuthenticatedWebuserId")

InitiateCallBegin(hasArgs, args) ==
    IF ~hasArgs
    THEN End(ToolOuterCatch(TypeErrorUndefined))
    ELSE IF FalsyStr(args, "from") \/ FalsyStr(args, "to")
    THEN End(ToolOuterCatch(McpError("InvalidParams",
             <<"Missing required parameters: from and to are required">>)))
    ELSE Await("t_call", [callData |-> CallData(args)], "callModule.initiate")

GetCallHistoryBegin(hasArgs, args) ==
    IF ~hasArgs
    THEN End(ToolOuterCatch(TypeErrorUndefined))
    ELSE Await("t_history", [historyFilter |-> HistoryFilter(args)], "historyModule.fetchAll")

UnknownTool(name) ==
    End(ToolOuterCatch(McpError("MethodNotFound", <<"Unknown tool: ", name>>)))

\* switch (request.params.name), up to the first await
ToolBegin(name, hasArgs, args) ==
    CASE name = "get_account_info"  -> Await("t_account", NoLoc, "client.get /account")
      [] name = "get_phone_numbers" -> Await("t_numbers", NoLoc, "numbersModule.getAllNumbers")
      [] name = "send_sms"          -> SendSmsBegin(hasArgs, args)
      [] name = "initiate_call"     -> InitiateCallBegin(hasArgs, args)
      [] name = "get_call_history"  -> GetCallHistoryBegin(hasArgs, args)
      [] name = "get_user_info"     -> Await("t_user_webuser", NoLoc, "client.getAuthenticatedWebuserId")
      [] name = "get_devices"       -> Await("t_dev_webuser", NoLoc, "client.getAuthenticatedWebuserId")
      [] OTHER                      -> UnknownTool(name)

(***************************************************************************)
(* CallToolRequestSchema handler                                           *)
(***************************************************************************)
CallTool(r, name, hasArgs, args) ==
    /\ Accepts("tools/call")
    /\ pc[r] = "idle"
    /\ req' = [req EXCEPT ![r] =
                  [kind |-> "tool", name |-> name, hasArgs |-> hasArgs, args |-> args]]
    /\ LET b == ToolBegin(name, hasArgs, args)
       IN  /\ pc' = [pc EXCEPT ![r] = b.pc]
           /\ loc' = [loc EXCEPT ![r] = b.loc]
           /\ resp' = [resp EXCEPT ![r] = b.resp]
           /\ calls' = [calls EXCEPT ![r] = b.ops]
    /\ UNCHANGED <<cachedResources, fetched, boot>>

\* a data operation resolved with `value`: return its text
ToolFetched(r, value) ==
    /\ pc[r] \in {"t_account", "t_numbers", "t_history", "t_user_get", "t_dev_devices"}
    /\ loc' = [loc EXCEPT ![r] = [value |-> value]]
    /\ resp' = [resp EXCEPT ![r] = Envelope(ToolText(pc[r], value), FALSE)]
    /\ pc' = [pc EXCEPT ![r] = "done"]
    /\ UNCHANGED <<cachedResources, req, calls, fetched, boot>>

\* the operation invoked once getAuthenticatedWebuserId resolved
AfterWebuser(p) ==
    CASE p = "t_sms_webuser"  -> [pc |-> "t_sms_ext",     op |-> "client.get /{webuserId}/sms"]
      [] p = "t_user_webuser" -> [pc |-> "t_user_get",    op |-> "client.get /users/{webuserId}"]
      [] p = "t_dev_webuser"  -> [pc |-> "t_dev_devices", op |-> "devicesModule.getDevices"]

ToolWebuser(r, webuserId) ==
    /\ pc[r] \in {"t_sms_webuser", "t_user_webuser", "t_dev_webuser"}
    /\ loc' = [loc EXCEPT ![r] = [webuserId |-> webuserId]]
    /\ calls' = [calls EXCEPT ![r] = Append(@, AfterWebuser(pc[r]).op)]
    /\ pc' = [pc EXCEPT ![r] = AfterWebuser(pc[r]).pc]
    /\ UNCHANGED <<cachedResources, req, resp, fetched, boot>>

\* extensionsResponse.items || []
ItemsOrEmpty(extensionsResponse) ==
    IF extensionsResponse.items = <<>> THEN <<>> ELSE extensionsResponse.items[1]

NoError == [name |-> "none", code |-> "none", message |-> <<>>]

\* send_sms: GET /{webuserId}/sms resolved with extensionsResponse
SmsExtensions(r, extensionsResponse) ==
    /\ pc[r] = "t_sms_ext"
    /\ LET seen == [webuserId |-> loc[r].webuserId,
                    extensionsResponse |-> extensionsResponse]
           smsExtensions == ItemsOrEmpty(extensionsResponse)
       IN  IF ~extensionsResponse.defined
           THEN /\ loc' = [loc EXCEPT ![r] = seen]
                /\ resp' = [resp EXCEPT ![r] = ToolOuterCatch(SmsCatch(TypeErrorUndefined))]
                /\ pc' = [pc EXCEPT ![r] = "done"]
                /\ UNCHANGED calls
           ELSE IF Len(smsExtensions) = 0
           THEN /\ loc' = [loc EXCEPT ![r] = seen]
                /\ resp' = [resp EXCEPT ![r] = ToolOuterCatch(SmsCatch(
                               McpError("InternalError",
                                   <<"No SMS extensions available for this account">>)))]
                /\ pc' = [pc EXCEPT ![r] = "done"]
                /\ UNCHANGED calls
           ELSE /\ loc' = [loc EXCEPT ![r] =
                              [webuserId          |-> loc[r].webuserId,
                               extensionsResponse |-> extensionsResponse,
                               smsExtension       |-> ChooseExtension(smsExtensions),
                               smsData            |->
                                   [smsId   |-> ChooseExtension(smsExtensions).id,
                                    to      |-> StripWs(Val(req[r].args, "recipient")),
                                    message |-> Val(req[r].args, "message")],
                               smsError           |-> NoError]]
                /\ calls' = [calls EXCEPT ![r] = Append(@, "smsModule.send")]
                /\ pc' = [pc EXCEPT ![r] = "t_sms_send"]
                /\ UNCHANGED resp
    /\ UNCHANGED <<cachedResources, req, fetched, boot>>

\* send_sms: smsModule.send resolved
SmsSent(r) ==
    /\ pc[r] = "t_sms_send"
    /\ resp' = [resp EXCEPT ![r] =
                   Envelope(SmsSentText(DebugInfo(loc[r].webuserId, loc[r].smsExtension),
                                        Val(req[r].args, "recipient")), FALSE)]
    /\ pc' = [pc EXCEPT ![r] = "done"]
    /\ UNCHANGED <<cachedResources, req, loc, calls, fetched, boot>>

\* send_sms: smsModule.send rejected; the innermost catch returns
SmsSendFailed(r, smsError) ==
    /\ pc[r] = "t_sms_send"
    /\ loc' = [loc EXCEPT ![r] = [@ EXCEPT !.smsError = smsError]]
    /\ resp' = [resp EXCEPT ![r] =
                   Envelope(SmsErrorText(DebugInfo(loc[r].webuserId, loc[r].smsExtension),
                                         smsError), TRUE)]
    /\ pc' = [pc EXCEPT ![r] = "done"]
    /\ UNCHANGED <<cachedResources, req, calls, fetched, boot>>

\* initiate_call: callModule.initiate resolved
CallInitiated(r) ==
    /\ pc[r] = "t_call"
    /\ resp' = [resp EXCEPT ![r] =
                   Envelope(<<"Call initiated from ">> \o Val(req[r].args, "from")
                                \o <<" to ">> \o Val(req[r].args, "to"), FALSE)]
    /\ pc' = [pc EXCEPT ![r] = "done"]
    /\ UNCHANGED <<cachedResources, req, loc, calls, fetched, boot>>

\* any other awaited provider operation of a tool rejected
ToolFailed(r, error) ==
    /\ pc[r] \in {"t_account", "t_numbers", "t_sms_webuser", "t_sms_ext", "t_call",
                  "t_history", "t_user_webuser", "t_user_get", "t_dev_webuser",
                  "t_dev_devices"}
    /\ loc' = [loc EXCEPT ![r] = [error |-> error]]
    /\ resp' = [resp EXCEPT ![r] = ToolOuterCatch(CaseCatch(pc[r], error))]
    /\ pc' = [pc EXCEPT ![r] = "done"]
    /\ UNCHANGED <<cachedResources, req, calls, fetched, boot>>

NextRead ==
    \/ \E r \in Readers, uri \in Uris : ReadResource(r, uri)
    \/ \E r \in Readers, data \in Values : ReadFetched(r, data)
    \/ \E r \in Readers, w \in WebuserIds : ReadWebuser(r, w)
    \/ \E r \in Readers, e \in ProviderErrors : ReadFailed(r, e)
    \/ \E r \in Readers : Finish(r)

NextTool ==
    \/ \E r \in Callers, name \in CallNames, hasArgs \in BOOLEAN :
          \E args \in (IF hasArgs THEN ArgsOf(name) ELSE {NoArgs}) :
             CallTool(r, name, hasArgs, args)
    \/ \E r \in Callers, value \in Values : ToolFetched(r, value)
    \/ \E r \in Callers, w \in WebuserIds : ToolWebuser(r, w)
    \/ \E r \in Callers, x \in ExtResponses : SmsExtensions(r, x)
    \/ \E r \in Callers : SmsSent(r)
    \/ \E r \in Callers, e \in ProviderErrors : SmsSendFailed(r, e)
    \/ \E r \in Callers : CallInitiated(r)
    \/ \E r \in Callers, e \in ProviderErrors : ToolFailed(r, e)
    \/ \E r \in Callers : Finish(r)

\* read requests only
SpecRead == Init /\ [][NextRead]_vars
\* tool calls only
SpecTool == Init /\ [][NextTool]_vars

\* tool calls on a server with cached resources
SpecCached == InitCached /\ [][NextTool]_vars

NextStart ==
    \/ LoadCredentials
    \/ Construct
    \/ SetupResourceHandlers
    \/ SetupToolHandlers
    \/ Run
    \/ NextTool

\* the process from its start, then serving tool calls
SpecStart == InitStart /\ [][NextStart]_vars

(***************************************************************************)
(* Properties of the read-resource handler (checked under SpecRead)        *)
(***************************************************************************)
ReadAwaits == {"r_account", "r_numbers", "r_history", "r_webuser", "r_devices"}
Range(seq) == {seq[i] : i \in DOMAIN seq}
IsPrefix(p, t) == Len(p) <= Len(t) /\ SubSeq(t, 1, Len(p)) = p

\* the values the handler's own test `if (this.cachedResources[uri])` takes for
\* a cached version
CachedVersions == {EmptyArr, "A", "B"}

\* in this step invocation r of the read handler begins
ReadBegins(r) == pc[r] = "idle" /\ pc'[r] # "idle" /\ req'[r].kind = "read"
\* in this step the provider operation awaited by invocation r settles
Settles(r) == pc[r] \notin {"idle", "done"} /\ pc'[r] # pc[r]
\* in this step the provider operation awaited by invocation r rejects
Rejects(r) == Settles(r) /\ "error" \in DOMAIN loc'[r]

\* C1: once the cache holds an entry for a uri (a value the handler takes for a
\* cached version), the entry is never replaced by a different value and every
\* later read of the uri returns that value's text.
C1_EntryNeverReplaced ==
    [][\A u \in ResourceUris :
          cachedResources[u] \in CachedVersions =>
             /\ cachedResources'[u] = cachedResources[u]
             /\ \A r \in Readers :
                   (ReadBegins(r) /\ req'[r].uri = u) =>
                       resp'[r] = ReadResult(u, <<Stringify(cachedResources[u])>>)]_vars

C3_UnknownUriInvalidRequest ==
    \A r \in Readers :
        (pc[r] = "done" /\ req[r].kind = "read" /\ req[r].uri \notin ResourceUris) =>
            /\ calls[r] = <<>>
            /\ resp[r].kind = "raise"
            /\ resp[r].error.code = "InvalidRequest"

\* C4: when a provider operation rejects during a read of a resource uri, the
\* handler throws an McpError with code InternalError, the step writes nothing
\* to the cache (only a read that returns a result ever writes it), and a read
\* that finds no cached version of its uri invokes the provider.
C4_ProviderFailureRaises ==
    [][/\ \A r \in Readers :
             Rejects(r) =>
                /\ req[r].uri \in ResourceUris
                /\ resp'[r].kind = "raise"
                /\ resp'[r].error.name = "McpError"
                /\ resp'[r].error.code = "InternalError"
                /\ pc'[r] = "done"
                /\ cachedResources' = cachedResources
       /\ cachedResources' # cachedResources =>
             \E r \in Readers :
                /\ Settles(r) /\ ~Rejects(r)
                /\ resp'[r].kind = "result"
                /\ cachedResources' = CacheStore(cachedResources, req[r].uri, loc'[r].data)
       /\ \A r \in Readers :
             (ReadBegins(r) /\ req'[r].uri \in ResourceUris
                            /\ cachedResources[req'[r].uri] \notin CachedVersions) =>
                 /\ pc'[r] \in ReadAwaits
                 /\ Len(calls'[r]) = 1]_vars

\* a read of sipgate://devices failed at its second provider operation and the
\* cache still has no entry for the uri
C4_Witness ==
    \E r \in Readers :
        /\ pc[r] = "done" /\ req[r].kind = "read"
        /\ req[r].uri = "sipgate://devices"
        /\ "error" \in DOMAIN loc[r]
        /\ Len(calls[r]) = 2
        /\ resp[r].kind = "raise"
        /\ cachedResources[req[r].uri] = Absent

(***************************************************************************)
(* Properties of the call-tool handler (checked under SpecTool)            *)
(***************************************************************************)
ToolDone(r) == pc[r] = "done" /\ req[r].kind = "tool"
\* the call sent by invocation r omits argument k
Omits(r, k) == ~req[r].hasArgs \/ ~Has(req[r].args, k)
\* the response of invocation r is an error: thrown, or an isError envelope
EndsInError(r) ==
    \/ resp[r].kind = "raise"
    \/ resp[r].kind = "envelope" /\ resp[r].isError
\* the error of invocation r carries the code, as the thrown error's code or in
\* the text of the isError envelope
ErrorCarries(r, code) ==
    \/ resp[r].kind = "raise" /\ resp[r].error.code = code
    \/ resp[r].kind = "envelope" /\ resp[r].isError /\ code \in Range(resp[r].text)

\* C5: a tool call that omits an argument its descriptor lists in `required`
\* invokes no provider operation and ends in an InvalidParams error (read
\* generously: thrown with that code, or named in the text of an isError
\* envelope).
C5_RequiredArgumentsChecked ==
    \A r \in Callers :
        (req[r].kind = "tool" /\ \E k \in Required(req[r].name) : Omits(r, k)) =>
            /\ calls[r] = <<>>
            /\ pc[r] = "done"
            /\ EndsInError(r)
            /\ (req[r].hasArgs => ErrorCarries(r, "InvalidParams"))

Fallback(name) ==
    CASE name = "get_phone_numbers" -> "No phone numbers available"
      [] name = "get_devices"       -> "No devices available"
      [] name = "get_call_history"  -> "No call history available"

\* C6: when the provider resolves get_phone_numbers, get_devices or
\* get_call_history with an empty collection, null or undefined, the tool
\* returns a non-error envelope whose text is the tool's fallback literal.
C6_FallbackOnEmpty ==
    \A r \in Callers :
        (/\ ToolDone(r)
         /\ req[r].name \in {"get_phone_numbers", "get_devices", "get_call_history"}
         /\ "value" \in DOMAIN loc[r]
         /\ loc[r].value \in {EmptyArr, Null, Undef}) =>
            resp[r] = Envelope(<<Fallback(req[r].name)>>, FALSE)

\* invocation r saw one of its provider operations reject
ProviderThrew(r) ==
    \/ "error" \in DOMAIN loc[r]
    \/ "smsError" \in DOMAIN loc[r] /\ loc[r].smsError # NoError

\* C7: the call-tool handler never throws; when a provider operation of a tool
\* rejects, the handler returns an envelope with isError true and a non-empty
\* text.
C7_ProviderFailureIsEnvelope ==
    \A r \in Callers :
        ToolDone(r) =>
            /\ resp[r].kind = "envelope"
            /\ (ProviderThrew(r) /\ req[r].name \in ToolNames) =>
                   /\ resp[r].isError
                   /\ resp[r].text # <<>>
                   /\ \E i \in DOMAIN resp[r].text : resp[r].text[i] # ""

\* get_user_info failed at its second provider operation
C7_Witness ==
    \E r \in Callers :
        /\ ToolDone(r) /\ req[r].name = "get_user_info"
        /\ ProviderThrew(r)
        /\ Len(calls[r]) = 2
        /\ resp[r].kind = "envelope" /\ resp[r].isError

\* C8: a call of a name outside the seven tools is thrown out of the handler as
\* an McpError with code MethodNotFound, and invokes no provider operation.
C8_UnknownToolRaises ==
    \A r \in Callers :
        (ToolDone(r) /\ req[r].name \notin ToolNames) =>
            /\ calls[r] = <<>>
            /\ resp[r].kind = "raise"
            /\ resp[r].error.code = "MethodNotFound"

DiagnosticHead == <<"Debug Info:\nWeb User ID: ">>

\* C9 (as claimed): the text of every response of send_sms begins with the
\* diagnostic block.
C9_AlwaysDiagnostic ==
    \A r \in Callers :
        (ToolDone(r) /\ req[r].name = "send_sms") =>
            /\ resp[r].kind = "envelope"
            /\ IsPrefix(DiagnosticHead, resp[r].text)

\* C9 (amended): the text of every response of a send_sms call that invoked the
\* provider's send operation (SMS sent, or send failure) begins with the
\* diagnostic block naming the resolved web user id and the chosen extension.
C9_DiagnosticWhenSendReached ==
    \A r \in Callers :
        (ToolDone(r) /\ req[r].name = "send_sms" /\ "smsModule.send" \in Range(calls[r])) =>
            /\ resp[r].kind = "envelope"
            /\ IsPrefix(DiagnosticHead \o loc[r].webuserId
                            \o <<"\nUsing SMS Extension: ">>
                            \o StringifyExt(ItemsOrEmpty(loc[r].extensionsResponse)[1]),
                        resp[r].text)
            /\ Len(resp[r].text) >
                   Len(DiagnosticHead) + Len(loc[r].webuserId) + 1
                       + Len(StringifyExt(ItemsOrEmpty(loc[r].extensionsResponse)[1]))

\* the provider's send operation failed for user w1 and extension s1
C9_Witness ==
    \E r \in Callers :
        /\ ToolDone(r) /\ req[r].name = "send_sms"
        /\ "smsModule.send" \in Range(calls[r])
        /\ loc[r].smsError # NoError
        /\ loc[r].webuserId = <<"w1">>
        /\ loc[r].smsExtension.id = <<"s1">>
        /\ resp[r].isError

Supplies(r, k) == req[r].hasArgs /\ Has(req[r].args, k)

\* C11: get_call_history invokes the provider's fetchAll exactly once; a call
\* without limit and types (the arguments object absent, or present without
\* them) passes limit 10 and types [CALL, VOICEMAIL, FAX, SMS], and a supplied
\* limit or types value is passed on unchanged.
C11_HistoryDefaults ==
    \A r \in Callers :
        (req[r].kind = "tool" /\ req[r].name = "get_call_history") =>
            /\ calls[r] = <<"historyModule.fetchAll">>
            /\ pc[r] = "t_history" =>
                  /\ loc[r].historyFilter.limit =
                        (IF Supplies(r, "limit") THEN req[r].args.limit[1] ELSE 10)
                  /\ loc[r].historyFilter.types =
                        (IF Supplies(r, "types") THEN req[r].args.types[1]
                         ELSE <<"CALL", "VOICEMAIL", "FAX", "SMS">>)

(***************************************************************************)
(* Properties of the cache contents (checked under SpecRead)               *)
(***************************************************************************)
\* C14: the cache starts empty and holds entries for the four resource uris
\* only; every step that changes an entry is the successful completion of a read
\* of that same uri, storing the value the provider resolved it with and
\* returning it; a read of an unknown uri and a failed read change nothing.
C14_OnlySuccessfulReadsWrite ==
    /\ \A u \in Uris : cachedResources[u] = Absent
    /\ [][/\ \A u \in OtherUris : cachedResources'[u] = Absent
          /\ \A u \in ResourceUris :
                cachedResources'[u] # cachedResources[u] =>
                   \E r \in Readers :
                      /\ Settles(r) /\ ~Rejects(r)
                      /\ req[r] = [kind |-> "read", uri |-> u]
                      /\ pc'[r] = "done"
                      /\ calls[r] # <<>>
                      /\ loc'[r].data \in Values
                      /\ cachedResources'[u] = loc'[r].data
                      /\ resp'[r] = ReadResult(u, <<Stringify(loc'[r].data)>>)
          /\ \A r \in Readers :
                (Rejects(r) \/ (ReadBegins(r) /\ req'[r].uri \notin ResourceUris)) =>
                    cachedResources' = cachedResources]_vars

\* a read of sipgate://numbers has completed with the value B, which is now the
\* entry; an earlier read has cached sipgate://history, and a failed read of
\* sipgate://account has left no entry
C14_Witness ==
    /\ pc[1] = "done" /\ pc[2] = "done"
    /\ req[1] = [kind |-> "read", uri |-> "sipgate://account"]
    /\ req[2] = [kind |-> "read", uri |-> "sipgate://numbers"]
    /\ "error" \in DOMAIN loc[1]
    /\ "data" \in DOMAIN loc[2] /\ loc[2].data = "B"
    /\ cachedResources["sipgate://numbers"] = "B"
    /\ cachedResources["sipgate://account"] = Absent
    /\ cachedResources["sipgate://history"] = EmptyArr

(***************************************************************************)
(* Properties of the start-up (checked under SpecStart)                    *)
(***************************************************************************)
\* a credential variable is unset or set to the empty string
EnvMissing(x) == x \in {<<>>, << <<>> >>}

\* C12: when either credential is missing or empty, the start-up fails with no
\* handler registered, the provider client not constructed and the transport
\* not connected (and so no request is ever served); when both are present the
\* start-up does not fail and the transport is connected only with all four
\* handlers registered.
C12_CredentialsGateStartup ==
    /\ (EnvMissing(boot.env.SIPGATE_TOKEN_ID) \/ EnvMissing(boot.env.SIPGATE_TOKEN)) =>
          /\ boot.pc \in {"load", "failed"}
          /\ boot.handlers = {}
          /\ ~boot.client
          /\ ~boot.connected
          /\ \A r \in Slots : pc[r] = "idle"
    /\ (~EnvMissing(boot.env.SIPGATE_TOKEN_ID) /\ ~EnvMissing(boot.env.SIPGATE_TOKEN)) =>
          /\ boot.pc # "failed"
          /\ boot.connected =>
                boot.handlers = {"resources/list", "resources/read", "tools/list", "tools/call"}
          /\ boot.handlers # {} => boot.client
          /\ (\E r \in Slots : pc[r] # "idle") => boot.connected

\* the start-up has failed with the token id set and the token set to the empty
\* string
C12_Witness ==
    /\ boot.pc = "failed"
    /\ boot.env.SIPGATE_TOKEN_ID = << <<"secret">> >>
    /\ boot.env.SIPGATE_TOKEN = << <<>> >>
    /\ boot.handlers = {} /\ ~boot.client /\ ~boot.connected

(***************************************************************************)
(* Properties of tool calls on a filled cache (checked under SpecCached)   *)
(***************************************************************************)
\* the tools that fetch the data of a resource
DataTools == {"get_account_info", "get_phone_numbers", "get_devices", "get_call_history"}

\* in this step invocation r of the call-tool handler begins
ToolBegins(r) == pc[r] = "idle" /\ pc'[r] # "idle" /\ req'[r].kind = "tool"

\* C13: no step of a tool call changes the resource cache; every call of
\* get_account_info, get_phone_numbers, get_devices or get_call_history invokes
\* the provider, whatever the cache holds for the matching resource, and the
\* text it returns is made from the value the provider resolved with in that
\* call (its serialization, or the fallback for null/undefined), not from the
\* cached value.
C13_ToolsBypassCache ==
    [][/\ cachedResources' = cachedResources
       /\ \A r \in Callers :
             (ToolBegins(r) /\ req'[r].name \in DataTools) =>
                 /\ pc'[r] # "done"
                 /\ calls'[r] # <<>>
       /\ \A r \in Callers :
             (/\ req[r].kind = "tool" /\ req[r].name \in DataTools
              /\ Settles(r) /\ "value" \in DOMAIN loc'[r]) =>
                 resp'[r] =
                    Envelope(IF loc'[r].value \in {Null, Undef}
                                   /\ req[r].name # "get_account_info"
                             THEN <<Fallback(req[r].name)>>
                             ELSE <<Stringify(loc'[r].value)>>, FALSE)]_vars
====
